---- MODULE Spec2Model ----
(***************************************************************************)
(* A model of the inlinable_string crate: InlineString, a fixed-capacity   *)
(* UTF-8 buffer (src/src/inline_string.rs), and InlinableString, the       *)
(* two-variant string that promotes from the inline buffer to a heap       *)
(* String (src/src/lib.rs).                                                *)
(*                                                                         *)
(* Texts are sequences of bytes (0..255), characters are Unicode scalar    *)
(* values (code points); encode_utf8 / decode_at convert between the two.  *)
(* Byte offsets are 0-based as in the source; TLA+ sequences are 1-based,  *)
(* so the byte at offset i of t is t[i + 1].                               *)
(***************************************************************************)
EXTENDS Integers, Sequences, FiniteSets, TLC

\* inline_string.rs:51
INLINE_STRING_CAPACITY == 32

\* Longest run of operations explored from an initial value.
MaxSteps == 2

None == -1

(* usize.  A usize value is held as the representative of its residue       *)
(* modulo 2^w in the two's-complement range: x >= 0 stands for x itself, up *)
(* to isize::MAX, and x < 0 stands for 2^w + x, so that -1 is usize::MAX.   *)
(* Addition modulo 2^w is then integer addition of the representatives, as  *)
(* long as the result stays in the range, which holds for a length of at    *)
(* most 32 plus any argument used here.                                     *)

\* usize::MAX - k
usize_max_minus(k) == 0 - 1 - k

\* x > isize::MAX
exceeds_isize_max(x) == x < 0

\* a + b of two usize values wraps around 2^w, for a <= isize::MAX
usize_add_overflows(a, b) == b < 0 /\ a + b >= 0

\* a.wrapping_add(b)
usize_wrapping_add(a, b) == a + b

\* x <= c as usize values, for c <= isize::MAX
usize_le(x, c) == x >= 0 /\ x <= c


Max(a, b) == IF a >= b THEN a ELSE b

----------------------------------------------------------------------------
(* UTF-8 (core::char, core::str) *)

\* char::len_utf8
len_utf8(ch) ==
    IF ch < 128 THEN 1
    ELSE IF ch < 2048 THEN 2
    ELSE IF ch < 65536 THEN 3
    ELSE 4

\* char::encode_utf8, what write!(slice, "{}", ch) stores
encode_utf8(ch) ==
    IF ch < 128 THEN <<ch>>
    ELSE IF ch < 2048 THEN <<192 + (ch \div 64), 128 + (ch % 64)>>
    ELSE IF ch < 65536 THEN
        <<224 + (ch \div 4096), 128 + ((ch \div 64) % 64), 128 + (ch % 64)>>
    ELSE
        <<240 + (ch \div 262144), 128 + ((ch \div 4096) % 64),
          128 + ((ch \div 64) % 64), 128 + (ch % 64)>>

\* a UTF-8 continuation byte, 0b10xxxxxx
is_cont(b) == b >= 128 /\ b <= 191

\* core::str::utf8_char_width: width announced by a leading byte, 0 if the
\* byte cannot start a character
utf8_char_width(b) ==
    IF b < 128 THEN 1
    ELSE IF b >= 194 /\ b <= 223 THEN 2
    ELSE IF b >= 224 /\ b <= 239 THEN 3
    ELSE IF b >= 240 /\ b <= 244 THEN 4
    ELSE 0

\* the byte at offset i of t, or 0 past the end (never a continuation byte)
byte_at(t, i) == IF i >= 0 /\ i < Len(t) THEN t[i + 1] ELSE 0

\* one step of core::str::from_utf8: is there a well-formed character at
\* offset i of t
well_formed_at(t, i) ==
    LET b0 == byte_at(t, i)
        b1 == byte_at(t, i + 1)
        w  == utf8_char_width(b0)
    IN  /\ w > 0
        /\ i + w <= Len(t)
        /\ w >= 2 =>
            /\ is_cont(b1)
            /\ b0 = 224 => b1 >= 160
            /\ b0 = 237 => b1 <= 159
            /\ b0 = 240 => b1 >= 144
            /\ b0 = 244 => b1 <= 143
        /\ w >= 3 => is_cont(byte_at(t, i + 2))
        /\ w >= 4 => is_cont(byte_at(t, i + 3))

RECURSIVE valid_from(_, _)
valid_from(t, i) ==
    IF i >= Len(t) THEN TRUE
    ELSE well_formed_at(t, i) /\ valid_from(t, i + utf8_char_width(byte_at(t, i)))

\* str::from_utf8(t).is_ok()
from_utf8_ok(t) == valid_from(t, 0)

\* core::str::next_code_point: the character whose encoding starts at offset i
decode_at(t, i) ==
    LET b0 == byte_at(t, i)
        c1 == byte_at(t, i + 1) % 64
        c2 == byte_at(t, i + 2) % 64
        c3 == byte_at(t, i + 3) % 64
    IN  IF b0 < 128 THEN b0
        ELSE IF b0 < 224 THEN (b0 % 32) * 64 + c1
        ELSE IF b0 < 240 THEN (b0 % 16) * 4096 + c1 * 64 + c2
        ELSE (b0 % 8) * 262144 + c1 * 4096 + c2 * 64 + c3

\* str::char_indices on a valid text: the offsets at which characters start,
\* found by decoding forward from offset 0
RECURSIVE char_starts_from(_, _)
char_starts_from(t, i) ==
    IF i >= Len(t) THEN {}
    ELSE {i} \cup char_starts_from(t, i + Max(1, utf8_char_width(byte_at(t, i))))

char_indices(t) == char_starts_from(t, 0)

\* a faulty scan that takes the last character to be one byte wide
last_char_start_fixed_width(t) ==
    IF Len(t) = 0 THEN None ELSE Len(t) - 1

\* str::char_indices().rev().next(): the start of the last character, found
\* by scanning back from the end over continuation bytes; None when empty
last_char_start(t) ==
    IF Len(t) = 0 THEN None
    ELSE CHOOSE i \in 0..(Len(t) - 1) :
            /\ ~is_cont(byte_at(t, i))
            /\ \A j \in (i + 1)..(Len(t) - 1) : is_cont(byte_at(t, j))

\* str::is_char_boundary
is_char_boundary(t, idx) ==
    IF idx = 0 \/ idx = Len(t) THEN TRUE
    ELSE IF idx > Len(t) THEN FALSE
    ELSE ~is_cont(byte_at(t, idx))

RECURSIVE Str(_)
\* the UTF-8 text of a sequence of characters
Str(chars) ==
    IF chars = <<>> THEN <<>>
    ELSE encode_utf8(Head(chars)) \o Str(Tail(chars))

----------------------------------------------------------------------------
(* InlineString (inline_string.rs).  A buffer is a record                  *)
(* [length, bytes] with bytes a sequence of INLINE_STRING_CAPACITY bytes.  *)
(* An operation yields [res, length, bytes, ret]: res is "ok", "err"       *)
(* (NotEnoughSpaceError) or "panic"; ret is the returned character or None.*)

Zeros == [i \in 1..INLINE_STRING_CAPACITY |-> 0]

\* &self.bytes[0..self.length]
inline_text(s) == SubSeq(s.bytes, 1, s.length)

\* InlineString::assert_sanity (the two debug_assert! conditions)
assert_sanity(s) ==
    /\ s.length <= INLINE_STRING_CAPACITY
    /\ from_utf8_ok(inline_text(s))

\* InlineString::new
inline_new == [length |-> 0, bytes |-> Zeros]

\* a faulty copy: a byte-by-byte loop from the low end, which reads bytes it
\* has already overwritten when the destination overlaps the source from above
ptr_copy_naive(bytes, src, dst, count) ==
    [i \in 1..Len(bytes) |->
        IF i - 1 >= dst /\ i - 1 < dst + count
        THEN (IF src < dst /\ i - 1 - dst >= dst - src
              THEN bytes[((i - 1 - dst) % (dst - src)) + src + 1]
              ELSE bytes[i - 1 - dst + src + 1])
        ELSE bytes[i]]

\* ptr::copy(src, dst, count) within one buffer, offsets 0-based, with the
\* semantics of memmove: every destination byte receives the byte the source
\* held before the call
ptr_copy(bytes, src, dst, count) ==
    [i \in 1..Len(bytes) |->
        IF i - 1 >= dst /\ i - 1 < dst + count
        THEN bytes[i - 1 - dst + src + 1]
        ELSE bytes[i]]

\* ptr::copy / write! of an external byte string into the buffer at offset dst
write_at(bytes, dst, string) ==
    [i \in 1..Len(bytes) |->
        IF i - 1 >= dst /\ i - 1 < dst + Len(string)
        THEN string[i - dst]
        ELSE bytes[i]]

\* impl From<&str> for InlineString, for string.len() <= INLINE_STRING_CAPACITY
\* (the assert! panics otherwise)
inline_from(string) ==
    [length |-> Len(string), bytes |-> write_at(Zeros, 0, string)]

Unchanged(s, r) == [res |-> r, length |-> s.length, bytes |-> s.bytes, ret |-> None]

\* a faulty push_str that copies what fits before it reports the error
inline_push_str_partial(s, string) ==
    LET new_length == s.length + Len(string)
    IN  IF new_length > INLINE_STRING_CAPACITY
        THEN [res |-> "err", length |-> s.length,
              bytes |-> write_at(s.bytes, s.length,
                           SubSeq(string, 1, INLINE_STRING_CAPACITY - s.length)),
              ret |-> None]
        ELSE [res |-> "ok", length |-> new_length,
              bytes |-> write_at(s.bytes, s.length, string), ret |-> None]

\* InlineString::push_str
inline_push_str(s, string) ==
    LET string_len == Len(string)
        new_length == s.length + string_len
    IN  IF new_length > INLINE_STRING_CAPACITY
        THEN Unchanged(s, "err")
        ELSE [res |-> "ok", length |-> new_length,
              bytes |-> write_at(s.bytes, s.length, string), ret |-> None]

\* a faulty push that refuses to fill the last byte of the buffer
inline_push_off_by_one(s, ch) ==
    LET new_length == s.length + len_utf8(ch)
    IN  IF new_length >= INLINE_STRING_CAPACITY
        THEN Unchanged(s, "err")
        ELSE [res |-> "ok", length |-> new_length,
              bytes |-> write_at(s.bytes, s.length, encode_utf8(ch)), ret |-> None]

\* InlineString::push
inline_push(s, ch) ==
    LET char_len == len_utf8(ch)
        new_length == s.length + char_len
    IN  IF new_length > INLINE_STRING_CAPACITY
        THEN Unchanged(s, "err")
        ELSE [res |-> "ok", length |-> new_length,
              bytes |-> write_at(s.bytes, s.length, encode_utf8(ch)), ret |-> None]

\* a faulty truncate without the two assert!s
inline_truncate_unchecked(s, new_len) ==
    [res |-> "ok", length |-> new_len, bytes |-> s.bytes, ret |-> None]

\* InlineString::truncate
inline_truncate(s, new_len) ==
    IF new_len \notin char_indices(inline_text(s)) THEN Unchanged(s, "panic")
    ELSE IF ~(new_len <= s.length) THEN Unchanged(s, "panic")
    ELSE [res |-> "ok", length |-> new_len, bytes |-> s.bytes, ret |-> None]

\* InlineString::pop
inline_pop(s) ==
    LET idx == last_char_start(inline_text(s))
    IN  IF idx = None THEN Unchanged(s, "ok")
        ELSE [res |-> "ok", length |-> idx, bytes |-> s.bytes,
              ret |-> decode_at(inline_text(s), idx)]

\* a faulty remove that closes the gap by one byte whatever the width of the
\* character
inline_remove_one_byte(s, idx) ==
    IF ~(idx <= s.length) THEN Unchanged(s, "panic")
    ELSE IF idx \notin char_indices(inline_text(s)) THEN Unchanged(s, "panic")
    ELSE LET ch == decode_at(inline_text(s), idx)
             next == idx + 1
         IN  [res |-> "ok", length |-> s.length - 1,
              bytes |-> ptr_copy(s.bytes, next, idx, s.length - next),
              ret |-> ch]

\* InlineString::remove
inline_remove(s, idx) ==
    IF ~(idx <= s.length) THEN Unchanged(s, "panic")
    ELSE IF idx \notin char_indices(inline_text(s)) THEN Unchanged(s, "panic")
    ELSE LET ch == decode_at(inline_text(s), idx)
             char_len == len_utf8(ch)
             next == idx + char_len
         IN  [res |-> "ok", length |-> s.length - char_len,
              bytes |-> ptr_copy(s.bytes, next, idx, s.length - next),
              ret |-> ch]

\* InlineString::insert.  There is no character-boundary check; the only
\* check after the bytes are moved is the closing assert_sanity, which is a
\* debug_assert!: dbg says whether the build has debug assertions.
inline_insert(s, idx, ch, dbg) ==
    IF ~(idx <= s.length) THEN Unchanged(s, "panic")
    ELSE LET char_len == len_utf8(ch)
             new_length == s.length + char_len
         IN  IF new_length > INLINE_STRING_CAPACITY THEN Unchanged(s, "err")
             ELSE LET moved == ptr_copy(s.bytes, idx, idx + char_len, s.length - idx)
                      after == [length |-> new_length,
                                bytes |-> write_at(moved, idx, encode_utf8(ch))]
                  IN  [res |-> IF dbg /\ ~assert_sanity(after) THEN "panic" ELSE "ok",
                       length |-> after.length, bytes |-> after.bytes, ret |-> None]

\* InlineString::clear
inline_clear(s) == [res |-> "ok", length |-> 0, bytes |-> s.bytes, ret |-> None]

----------------------------------------------------------------------------
(* std::string::String, the heap string InlinableString::Heap wraps and the *)
(* reference the contract is written against.  A String is a record        *)
(* [text, cap]; an operation yields [res, text, cap, ret].                 *)

\* String::from(&str): an exact-size allocation
string_from(t) == [text |-> t, cap |-> Len(t)]

\* String::with_capacity
string_with_capacity(capacity) == [text |-> <<>>, cap |-> capacity]

\* the amortized growth of String::reserve / push / push_str / insert
grow_amortized(cap, len, additional) ==
    IF cap - len >= additional THEN cap
    ELSE Max(8, Max(cap * 2, len + additional))

StringUnchanged(h, r) == [res |-> r, text |-> h.text, cap |-> h.cap, ret |-> None]

\* String::push_str
string_push_str(h, string) ==
    [res |-> "ok", text |-> h.text \o string,
     cap |-> grow_amortized(h.cap, Len(h.text), Len(string)), ret |-> None]

\* String::push
string_push(h, ch) == string_push_str(h, encode_utf8(ch))

\* String::insert: assert!(self.is_char_boundary(idx))
string_insert(h, idx, ch) ==
    IF ~is_char_boundary(h.text, idx) THEN StringUnchanged(h, "panic")
    ELSE [res |-> "ok",
          text |-> SubSeq(h.text, 1, idx) \o encode_utf8(ch)
                     \o SubSeq(h.text, idx + 1, Len(h.text)),
          cap |-> grow_amortized(h.cap, Len(h.text), len_utf8(ch)),
          ret |-> None]

\* String::remove: self[idx..] panics off a boundary, and there must be a
\* character at idx
string_remove(h, idx) ==
    IF ~is_char_boundary(h.text, idx) \/ idx = Len(h.text)
    THEN StringUnchanged(h, "panic")
    ELSE LET ch == decode_at(h.text, idx)
             next == idx + len_utf8(ch)
         IN  [res |-> "ok",
              text |-> SubSeq(h.text, 1, idx) \o SubSeq(h.text, next + 1, Len(h.text)),
              cap |-> h.cap, ret |-> ch]

\* String::pop
string_pop(h) ==
    LET idx == last_char_start(h.text)
    IN  IF idx = None THEN StringUnchanged(h, "ok")
        ELSE [res |-> "ok", text |-> SubSeq(h.text, 1, idx), cap |-> h.cap,
              ret |-> decode_at(h.text, idx)]

\* String::truncate: no effect when new_len is past the end, a panic when it
\* is inside a character
string_truncate(h, new_len) ==
    IF new_len > Len(h.text) THEN StringUnchanged(h, "ok")
    ELSE IF ~is_char_boundary(h.text, new_len) THEN StringUnchanged(h, "panic")
    ELSE [res |-> "ok", text |-> SubSeq(h.text, 1, new_len), cap |-> h.cap,
          ret |-> None]

\* String::clear
string_clear(h) == [res |-> "ok", text |-> <<>>, cap |-> h.cap, ret |-> None]

\* String::reserve: panics ("capacity overflow") when the capacity asked for
\* exceeds isize::MAX
string_reserve(h, additional) ==
    IF exceeds_isize_max(additional) THEN StringUnchanged(h, "panic")
    ELSE [res |-> "ok", text |-> h.text,
          cap |-> grow_amortized(h.cap, Len(h.text), additional), ret |-> None]

\* String::reserve_exact
string_reserve_exact(h, additional) ==
    IF exceeds_isize_max(additional) THEN StringUnchanged(h, "panic")
    ELSE [res |-> "ok", text |-> h.text,
          cap |-> IF h.cap - Len(h.text) >= additional THEN h.cap
                  ELSE Len(h.text) + additional,
          ret |-> None]

\* String::shrink_to_fit
string_shrink_to_fit(h) ==
    [res |-> "ok", text |-> h.text, cap |-> Len(h.text), ret |-> None]

----------------------------------------------------------------------------
(* The state: one InlinableString (variant + the active variant's data),   *)
(* a reference String that receives the same calls, and the last call with *)
(* its result.                                                             *)

VARIABLES
    variant,     \* "Inline" or "Heap"
    length,      \* InlineString.length       (Inline)
    bytes,       \* InlineString.bytes        (Inline)
    heap,        \* the String's text         (Heap)
    hcap,        \* the String's capacity     (Heap)
    swapped,     \* the InlineString that mem::swap took out in the last call
    op,          \* the last call: [name, idx, ch, str, n, was]
    outcome,     \* its result: "ok", "err" (NotEnoughSpaceError) or "panic"
    ret,         \* the character it returned, or None
    ref,         \* text of the reference String
    refOutcome,  \* result of the same call on the reference String
    refRet,      \* the character the reference String returned, or None
    steps        \* number of calls made

vars == <<variant, length, bytes, heap, hcap, swapped, op, outcome, ret,
          ref, refOutcome, refRet, steps>>

\* characters of UTF-8 width 1, 2, 3 and 4: 'a', U+00E9, U+20AC, U+1D11E
Chars == {97, 233, 8364, 119070}

\* a text of n + 5 bytes: a 3-byte character, n distinct ASCII letters, a
\* 2-byte character
Seed(n) == Str(<<8364>> \o [i \in 1..n |-> 64 + i] \o <<233>>)

\* initial texts of 0, 6, 29, 31, 32 and 35 bytes
SeedTexts == {<<>>, Seed(1), Seed(24), Seed(26), Seed(27), Seed(30)}

\* &str arguments of 0, 2, 6 and 35 bytes
StrArgs == {<<>>, Str(<<104, 105>>), Str(<<119070, 233>>), Seed(30)}

\* offsets at both ends of a text of len bytes, in range and out of range, on
\* and off character boundaries
IdxArgs(len) == {i \in {0, 1, 2, 3, len - 1, len, len + 1} : i >= 0}

\* additional: small values, one that promotes any text, and usize::MAX - 2
ReserveArgs == {0, 3, 33, usize_max_minus(2)}

Self == [length |-> length, bytes |-> bytes]
Heap == [text |-> heap, cap |-> hcap]
Ref  == [text |-> ref, cap |-> Len(ref)]

\* impl Deref / AsRef<str> for InlinableString
Text == IF variant = "Inline" THEN inline_text(Self) ELSE heap

\* InlinableString::len
len == IF variant = "Inline" THEN length ELSE Len(heap)

\* a faulty capacity that reports the bytes in use for an Inline value
capacity_in_use == IF variant = "Inline" THEN length ELSE hcap

\* InlinableString::capacity
capacity == IF variant = "Inline" THEN INLINE_STRING_CAPACITY ELSE hcap

\* the opening assert_sanity of every InlineString method.  A buffer whose
\* contents are no longer UTF-8 makes every later str method undefined, so
\* no call is explored from such a state.
Sane == variant = "Heap" \/ assert_sanity(Self)

CanStep == steps < MaxSteps /\ Sane

\* the call being made, with the variant it is made on
Call(name, idx, ch, string, n) ==
    op' = [name |-> name, idx |-> idx, ch |-> ch, str |-> string, n |-> n,
           was |-> variant]

NoCall == [name |-> "new", idx |-> 0, ch |-> 0, str |-> <<>>, n |-> 0,
           was |-> "none"]

\* *self = InlinableString::Inline(r)
SetInline(r) ==
    /\ variant' = "Inline"
    /\ length' = r.length
    /\ bytes' = r.bytes
    /\ heap' = <<>>
    /\ hcap' = 0

\* *self = InlinableString::Heap(h)
SetHeap(h) ==
    /\ variant' = "Heap"
    /\ heap' = h.text
    /\ hcap' = h.cap
    /\ length' = 0
    /\ bytes' = Zeros

\* mem::swap(self, &mut InlinableString::Heap(promoted)): the inline buffer r,
\* as the failed attempt left it, is taken out and dropped
Promote(r, promoted) ==
    /\ SetHeap(promoted)
    /\ swapped' = [length |-> r.length, bytes |-> r.bytes]

Result(res, c) == outcome' = res /\ ret' = c

RefStep(r) == ref' = r.text /\ refOutcome' = r.res /\ refRet' = r.ret

RefSkip == ref' = ref /\ refOutcome' = "ok" /\ refRet' = None

\* InlinableString::from(&str) for any text, from_utf8 (always Heap) for any text
Init ==
    /\ \E t \in SeedTexts :
        /\ ref = t
        /\ \/ /\ Len(t) <= INLINE_STRING_CAPACITY
              /\ variant = "Inline"
              /\ length = inline_from(t).length
              /\ bytes = inline_from(t).bytes
              /\ heap = <<>>
              /\ hcap = 0
           \/ /\ variant = "Heap"
              /\ heap = string_from(t).text
              /\ hcap = string_from(t).cap
              /\ length = 0
              /\ bytes = Zeros
    /\ swapped = inline_new
    /\ op = NoCall
    /\ outcome = "ok"
    /\ ret = None
    /\ refOutcome = "ok"
    /\ refRet = None
    /\ steps = 0

----------------------------------------------------------------------------
(* impl StringExt for InlinableString (lib.rs) *)

\* push_str, Inline arm after the inline attempt failed:
\* String::from(s.as_ref()) followed by push_str(string)
promoted_push_str(s, string) ==
    string_push_str(string_from(inline_text(s)), string)

\* a faulty promotion that pushes the character before the inline text
promoted_push_first(s, ch) ==
    string_push_str(
        string_push(string_with_capacity(s.length + 1), ch), inline_text(s))

\* push, Inline arm after the inline attempt failed
promoted_push(s, ch) ==
    string_push(
        string_push_str(string_with_capacity(s.length + 1), inline_text(s)), ch)

\* a faulty promotion that appends the character instead of inserting it
promoted_insert_appends(s, idx, ch) ==
    string_push(
        string_push_str(string_with_capacity(s.length + 1), inline_text(s)), ch)

\* insert, Inline arm after the inline attempt failed, for idx on a boundary:
\* push_str(&s[..idx]); push(ch); push_str(&s[idx..])
promoted_insert(s, idx, ch) ==
    string_push_str(
        string_push(
            string_push_str(string_with_capacity(s.length + 1),
                            SubSeq(inline_text(s), 1, idx)),
            ch),
        SubSeq(inline_text(s), idx + 1, s.length))

\* InlinableString::push_str
PushStr ==
    /\ CanStep
    /\ \E string \in StrArgs :
        /\ Call("push_str", 0, 0, string, 0)
        /\ RefStep(string_push_str(Ref, string))
        /\ Result("ok", None)
        /\ IF variant = "Heap"
           THEN SetHeap(string_push_str(Heap, string)) /\ swapped' = inline_new
           ELSE LET r == inline_push_str(Self, string)
                IN  IF r.res = "ok"
                    THEN SetInline(r) /\ swapped' = inline_new
                    ELSE Promote(r, promoted_push_str(r, string))
    /\ steps' = steps + 1

\* InlinableString::push
Push ==
    /\ CanStep
    /\ \E ch \in Chars :
        /\ Call("push", 0, ch, <<>>, 0)
        /\ RefStep(string_push(Ref, ch))
        /\ Result("ok", None)
        /\ IF variant = "Heap"
           THEN SetHeap(string_push(Heap, ch)) /\ swapped' = inline_new
           ELSE LET r == inline_push(Self, ch)
                IN  IF r.res = "ok"
                    THEN SetInline(r) /\ swapped' = inline_new
                    ELSE Promote(r, promoted_push(r, ch))
    /\ steps' = steps + 1

\* InlinableString::insert
Insert ==
    /\ CanStep
    /\ \E idx \in IdxArgs(len), ch \in Chars, dbg \in BOOLEAN :
        /\ Call("insert", idx, ch, <<>>, 0)
        /\ RefStep(string_insert(Ref, idx, ch))
        /\ IF variant = "Heap"
           THEN LET h == string_insert(Heap, idx, ch)
                IN  SetHeap(h) /\ swapped' = inline_new /\ Result(h.res, None)
           ELSE LET r == inline_insert(Self, idx, ch, dbg)
                IN  IF r.res # "err"
                    THEN SetInline(r) /\ swapped' = inline_new /\ Result(r.res, None)
                    ELSE IF ~is_char_boundary(inline_text(r), idx)
                    \* &s[..idx] panics
                    THEN SetInline(r) /\ swapped' = inline_new /\ Result("panic", None)
                    ELSE Promote(r, promoted_insert(r, idx, ch)) /\ Result("ok", None)
    /\ steps' = steps + 1

\* InlinableString::remove
Remove ==
    /\ CanStep
    /\ \E idx \in IdxArgs(len) :
        /\ Call("remove", idx, 0, <<>>, 0)
        /\ RefStep(string_remove(Ref, idx))
        /\ IF variant = "Heap"
           THEN LET h == string_remove(Heap, idx)
                IN  SetHeap(h) /\ Result(h.res, h.ret)
           ELSE LET r == inline_remove(Self, idx)
                IN  SetInline(r) /\ Result(r.res, r.ret)
    /\ swapped' = inline_new
    /\ steps' = steps + 1

\* a faulty pop that demotes a short Heap string on its own
PopDemotes ==
    /\ CanStep
    /\ Call("pop", 0, 0, <<>>, 0)
    /\ RefStep(string_pop(Ref))
    /\ IF variant = "Heap"
       THEN LET h == string_pop(Heap)
            IN  /\ Result(h.res, h.ret)
                /\ IF Len(h.text) <= INLINE_STRING_CAPACITY
                   THEN SetInline(inline_from(h.text))
                   ELSE SetHeap(h)
       ELSE LET r == inline_pop(Self)
            IN  SetInline(r) /\ Result(r.res, r.ret)
    /\ swapped' = inline_new
    /\ steps' = steps + 1

\* InlinableString::pop
Pop ==
    /\ CanStep
    /\ Call("pop", 0, 0, <<>>, 0)
    /\ RefStep(string_pop(Ref))
    /\ IF variant = "Heap"
       THEN LET h == string_pop(Heap)
            IN  SetHeap(h) /\ Result(h.res, h.ret)
       ELSE LET r == inline_pop(Self)
            IN  SetInline(r) /\ Result(r.res, r.ret)
    /\ swapped' = inline_new
    /\ steps' = steps + 1

\* InlinableString::truncate
Truncate ==
    /\ CanStep
    /\ \E new_len \in IdxArgs(len) :
        /\ Call("truncate", 0, 0, <<>>, new_len)
        /\ RefStep(string_truncate(Ref, new_len))
        /\ IF variant = "Heap"
           THEN LET h == string_truncate(Heap, new_len)
                IN  SetHeap(h) /\ Result(h.res, None)
           ELSE LET r == inline_truncate(Self, new_len)
                IN  SetInline(r) /\ Result(r.res, None)
    /\ swapped' = inline_new
    /\ steps' = steps + 1

\* StringExt::clear for InlinableString: the text becomes empty in the
\* active variant
Clear ==
    /\ CanStep
    /\ Call("clear", 0, 0, <<>>, 0)
    /\ RefStep(string_clear(Ref))
    /\ Result("ok", None)
    /\ IF variant = "Heap"
       THEN SetHeap(string_clear(Heap))
       ELSE SetInline(inline_clear(Self))
    /\ swapped' = inline_new
    /\ steps' = steps + 1

\* reserve and reserve_exact, Inline arm (the two are the same code):
\* s.len() + additional panics on overflow in a build with overflow checks
\* (dbg) and wraps around otherwise; String::with_capacity panics ("capacity
\* overflow") above isize::MAX
inline_arm_reserve(additional, dbg) ==
    IF dbg /\ usize_add_overflows(length, additional)
    THEN SetInline(Self) /\ swapped' = inline_new /\ Result("panic", None)
    ELSE LET new_capacity == usize_wrapping_add(length, additional)
         IN  IF usize_le(new_capacity, INLINE_STRING_CAPACITY)
             THEN SetInline(Self) /\ swapped' = inline_new /\ Result("ok", None)
             ELSE IF exceeds_isize_max(new_capacity)
             THEN SetInline(Self) /\ swapped' = inline_new /\ Result("panic", None)
             ELSE /\ Promote(Self,
                        string_push_str(string_with_capacity(new_capacity),
                                        inline_text(Self)))
                  /\ Result("ok", None)

\* InlinableString::reserve
Reserve ==
    /\ CanStep
    /\ \E additional \in ReserveArgs, dbg \in BOOLEAN :
        /\ Call("reserve", 0, 0, <<>>, additional)
        /\ IF variant = "Heap"
           THEN LET h == string_reserve(Heap, additional)
                IN  SetHeap(h) /\ swapped' = inline_new /\ Result(h.res, None)
           ELSE inline_arm_reserve(additional, dbg)
    /\ RefSkip
    /\ steps' = steps + 1

\* InlinableString::reserve_exact
ReserveExact ==
    /\ CanStep
    /\ \E additional \in ReserveArgs, dbg \in BOOLEAN :
        /\ Call("reserve_exact", 0, 0, <<>>, additional)
        /\ IF variant = "Heap"
           THEN LET h == string_reserve_exact(Heap, additional)
                IN  SetHeap(h) /\ swapped' = inline_new /\ Result(h.res, None)
           ELSE inline_arm_reserve(additional, dbg)
    /\ RefSkip
    /\ steps' = steps + 1

\* a faulty shrink_to_fit that keeps a text of exactly 32 bytes on the heap
ShrinkToFitBelowCapacity ==
    /\ CanStep
    /\ Call("shrink_to_fit", 0, 0, <<>>, 0)
    /\ IF len < INLINE_STRING_CAPACITY
       THEN /\ IF variant = "Heap"
               THEN SetInline(inline_from(heap))
               ELSE SetInline(Self)
            /\ Result("ok", None)
       ELSE IF variant = "Heap"
            THEN SetHeap(string_shrink_to_fit(Heap)) /\ Result("ok", None)
            ELSE SetInline(Self) /\ Result("panic", None)
    /\ swapped' = inline_new
    /\ RefSkip
    /\ steps' = steps + 1

\* InlinableString::shrink_to_fit
ShrinkToFit ==
    /\ CanStep
    /\ Call("shrink_to_fit", 0, 0, <<>>, 0)
    /\ IF len <= INLINE_STRING_CAPACITY
       THEN /\ IF variant = "Heap"
               THEN SetInline(inline_from(heap))
               ELSE SetInline(Self)
            /\ Result("ok", None)
       ELSE IF variant = "Heap"
            THEN SetHeap(string_shrink_to_fit(Heap)) /\ Result("ok", None)
            ELSE SetInline(Self) /\ Result("panic", None)
    /\ swapped' = inline_new
    /\ RefSkip
    /\ steps' = steps + 1

Next ==
    \/ PushStr
    \/ Push
    \/ Insert
    \/ Remove
    \/ Pop
    \/ Truncate
    \/ Clear
    \/ Reserve
    \/ ReserveExact
    \/ ShrinkToFit

Spec == Init /\ [][Next]_vars

----------------------------------------------------------------------------
(* A bare InlineString driven through its own methods (inline_string.rs),  *)
(* where NotEnoughSpaceError reaches the caller.  The buffer is the Inline *)
(* data of the state; the variant never changes.                           *)

\* the call leaves the buffer as r and reports r.res, r.ret
InlineStep(r) ==
    /\ SetInline(r)
    /\ Result(r.res, r.ret)
    /\ swapped' = inline_new
    /\ steps' = steps + 1

\* InlineString::from(&str) of a text that fits
InitInline ==
    /\ \E t \in {s \in SeedTexts : Len(s) <= INLINE_STRING_CAPACITY} :
        /\ ref = t
        /\ length = inline_from(t).length
        /\ bytes = inline_from(t).bytes
    /\ variant = "Inline"
    /\ heap = <<>>
    /\ hcap = 0
    /\ swapped = inline_new
    /\ op = NoCall
    /\ outcome = "ok"
    /\ ret = None
    /\ refOutcome = "ok"
    /\ refRet = None
    /\ steps = 0

InlinePushStr ==
    /\ CanStep
    /\ \E string \in StrArgs :
        /\ Call("push_str", 0, 0, string, 0)
        /\ RefStep(string_push_str(Ref, string))
        /\ InlineStep(inline_push_str(Self, string))

InlinePush ==
    /\ CanStep
    /\ \E ch \in Chars :
        /\ Call("push", 0, ch, <<>>, 0)
        /\ RefStep(string_push(Ref, ch))
        /\ InlineStep(inline_push(Self, ch))

InlineInsert ==
    /\ CanStep
    /\ \E idx \in IdxArgs(length), ch \in Chars, dbg \in BOOLEAN :
        /\ Call("insert", idx, ch, <<>>, 0)
        /\ RefStep(string_insert(Ref, idx, ch))
        /\ InlineStep(inline_insert(Self, idx, ch, dbg))

InlineRemove ==
    /\ CanStep
    /\ \E idx \in IdxArgs(length) :
        /\ Call("remove", idx, 0, <<>>, 0)
        /\ RefStep(string_remove(Ref, idx))
        /\ InlineStep(inline_remove(Self, idx))

InlinePop ==
    /\ CanStep
    /\ Call("pop", 0, 0, <<>>, 0)
    /\ RefStep(string_pop(Ref))
    /\ InlineStep(inline_pop(Self))

InlineTruncate ==
    /\ CanStep
    /\ \E new_len \in IdxArgs(length) :
        /\ Call("truncate", 0, 0, <<>>, new_len)
        /\ RefStep(string_truncate(Ref, new_len))
        /\ InlineStep(inline_truncate(Self, new_len))

InlineClear ==
    /\ CanStep
    /\ Call("clear", 0, 0, <<>>, 0)
    /\ RefStep(string_clear(Ref))
    /\ InlineStep(inline_clear(Self))

NextInline ==
    \/ InlinePushStr
    \/ InlinePush
    \/ InlineInsert
    \/ InlineRemove
    \/ InlinePop
    \/ InlineTruncate
    \/ InlineClear

SpecInline == InitInline /\ [][NextInline]_vars

----------------------------------------------------------------------------
(* Properties *)

\* the bytes a push_str / push / insert call adds
Added(o) == IF o.name = "push_str" THEN o.str ELSE encode_utf8(o.ch)

\* t with the bytes s inserted at offset idx
Spliced(t, idx, s) == SubSeq(t, 1, idx) \o s \o SubSeq(t, idx + 1, Len(t))

\* idx is an offset of t that a heap String accepts for insert and truncate
ValidOffset(t, idx) == idx <= Len(t) /\ is_char_boundary(t, idx)

Appends == {"push_str", "push", "insert"}

\* C1: starting in agreement with a reference String, every push_str, push,
\* insert, remove, pop and truncate whose arguments the reference String
\* accepts (offsets in range, on character boundaries) succeeds on the
\* InlinableString too, leaves the same text and returns the same value,
\* in either variant.
C1_MirrorsReferenceString ==
    [][(/\ Text = ref
        /\ op'.name \in {"push_str", "push", "insert", "remove", "pop", "truncate"}
        /\ refOutcome' = "ok"
        /\ op'.name = "truncate" => op'.n <= Len(ref))
       => (outcome' = "ok" /\ Text' = ref' /\ ret' = refRet')]_vars

\* C2: in every reachable state the bytes [0, length) of the active variant
\* are valid UTF-8 and the inline length is within the capacity, and a call
\* that is rejected has changed neither the bytes nor the length.
C2_AlwaysUtf8AndRejectBeforeMutate ==
    /\ [](from_utf8_ok(Text) /\ length <= INLINE_STRING_CAPACITY)
    /\ [][outcome' = "panic" =>
            (variant' = variant /\ bytes' = bytes /\ length' = length
             /\ heap' = heap)]_vars

\* C3: push_str, push and insert at a valid offset on an Inline value of
\* length L that add w bytes leave it Inline iff L + w <= 32 and make it
\* Heap iff L + w > 32; on a Heap value they never change the variant.
C3_PromotionExactlyOnOverflow ==
    [][op'.name \in Appends =>
        LET w == Len(Added(op'))
        IN  /\ (/\ variant = "Inline"
                /\ op'.name = "insert" => ValidOffset(Text, op'.idx))
               => /\ variant' = "Inline" <=> length + w <= INLINE_STRING_CAPACITY
                  /\ variant' = "Heap" <=> length + w > INLINE_STRING_CAPACITY
            /\ variant = "Heap" => variant' = "Heap"]_vars

\* a push promoted a full inline buffer of 32 bytes to a Heap string of 33
C3_Witness ==
    /\ op.name = "push"
    /\ variant = "Heap"
    /\ swapped.length = INLINE_STRING_CAPACITY
    /\ Len(heap) = INLINE_STRING_CAPACITY + 1

\* C4: when push_str, push or insert overflows the inline capacity, either
\* the value goes in that one call from Inline(old text) to Heap(old text
\* with the whole new content at the requested position), the inline buffer
\* that is dropped having the bytes and length it had before the call and
\* no capacity error reaching the caller; or the call is an insert with an
\* invalid offset, it is rejected, and the value is still Inline(old text).
C4_PromotionAllOrNothing ==
    [][(/\ variant = "Inline"
        /\ op'.name \in Appends
        /\ length + Len(Added(op')) > INLINE_STRING_CAPACITY)
       => IF op'.name = "insert" /\ ~ValidOffset(Text, op'.idx)
          THEN /\ outcome' = "panic"
               /\ variant' = "Inline"
               /\ length' = length
               /\ bytes' = bytes
          ELSE /\ outcome' = "ok"
               /\ variant' = "Heap"
               /\ swapped' = Self
               /\ heap' = Spliced(Text,
                                  IF op'.name = "insert" THEN op'.idx ELSE length,
                                  Added(op'))]_vars

\* an insert inside the text of a full inline buffer promoted it
C4_Witness ==
    /\ op.name = "insert"
    /\ op.idx = 3
    /\ variant = "Heap"
    /\ swapped.length = INLINE_STRING_CAPACITY
    /\ Len(heap) > INLINE_STRING_CAPACITY

\* C5: a Heap value stays Heap after push_str, push, insert, remove, pop,
\* truncate, reserve and reserve_exact, whatever its length becomes; only
\* shrink_to_fit takes a value from Heap to Inline; remove, pop and truncate
\* never change the variant of an Inline value.
C5_NoAutomaticDemotion ==
    [][/\ (variant = "Heap" /\ variant' = "Inline") => op'.name = "shrink_to_fit"
       /\ (/\ variant = "Heap"
           /\ op'.name \in {"push_str", "push", "insert", "remove", "pop",
                            "truncate", "reserve", "reserve_exact"})
          => variant' = "Heap"
       /\ (variant = "Inline" /\ op'.name \in {"remove", "pop", "truncate"})
          => variant' = "Inline"]_vars

\* a pop left a Heap value holding a text that would fit inline
C5_Witness ==
    /\ op.name = "pop"
    /\ ret # None
    /\ variant = "Heap"
    /\ Len(heap) <= INLINE_STRING_CAPACITY

\* C6: InlineString::insert at an offset strictly inside a multi-byte
\* character is rejected as fatal and changes neither the bytes nor the
\* length, with or without room for the character.
C6_InsertInsideCharacterRejected ==
    [][(/\ op'.name = "insert"
        /\ op'.idx < length
        /\ ~is_char_boundary(inline_text(Self), op'.idx))
       => (outcome' = "panic" /\ bytes' = bytes /\ length' = length)]_vars

\* C7: InlineString::truncate(new_len) succeeds for every new_len <= length
\* on a character boundary, setting the length to new_len and keeping the
\* bytes [0, new_len); every other new_len is fatal and changes nothing.
C7_TruncateContract ==
    [][op'.name = "truncate" =>
        IF ValidOffset(inline_text(Self), op'.n)
        THEN /\ outcome' = "ok"
             /\ length' = op'.n
             /\ SubSeq(bytes', 1, op'.n) = SubSeq(bytes, 1, op'.n)
        ELSE /\ outcome' = "panic"
             /\ length' = length
             /\ bytes' = bytes]_vars

\* C8: insert, remove, pop and truncate on an Inline value are fatal exactly
\* when the same call on a heap String with the same text is fatal, and
\* otherwise leave the same text and return the same value.
C8_SameOutcomeInBothVariants ==
    [][(/\ variant = "Inline"
        /\ Text = ref
        /\ op'.name \in {"insert", "remove", "pop", "truncate"})
       => /\ outcome' = "panic" <=> refOutcome' = "panic"
          /\ outcome' # "panic" => (Text' = ref' /\ ret' = refRet')]_vars

\* C9: InlineString::push_str and push of w bytes on a buffer of length L
\* return NotEnoughSpaceError and change no byte and not the length when
\* L + w > 32; otherwise they return Ok, the text is the old text followed by
\* the added bytes and the length is L + w.
C9_InlineAppendContract ==
    [][op'.name \in {"push_str", "push"} =>
        LET w == Len(Added(op'))
        IN  IF length + w > INLINE_STRING_CAPACITY
            THEN /\ outcome' = "err"
                 /\ length' = length
                 /\ bytes' = bytes
            ELSE /\ outcome' = "ok"
                 /\ length' = length + w
                 /\ inline_text(Self)' = inline_text(Self) \o Added(op')]_vars

\* a push_str that does not fit into a partly filled buffer was refused
C9_Witness ==
    /\ op.name = "push_str"
    /\ outcome = "err"
    /\ length > 0
    /\ length < INLINE_STRING_CAPACITY
    /\ Len(op.str) <= INLINE_STRING_CAPACITY

\* C10: InlineString::insert(idx, ch) with idx > length is fatal and changes
\* nothing; with idx <= length on a character boundary it returns
\* NotEnoughSpaceError and changes nothing when length + w > 32, and
\* otherwise the text is old[0..idx) ch old[idx..length) and the length
\* grows by w.
C10_InlineInsertContract ==
    [][op'.name = "insert" =>
        LET w == len_utf8(op'.ch)
        IN  IF op'.idx > length
            THEN outcome' = "panic" /\ length' = length /\ bytes' = bytes
            ELSE is_char_boundary(inline_text(Self), op'.idx) =>
                IF length + w > INLINE_STRING_CAPACITY
                THEN outcome' = "err" /\ length' = length /\ bytes' = bytes
                ELSE /\ outcome' = "ok"
                     /\ length' = length + w
                     /\ inline_text(Self)' =
                            Spliced(inline_text(Self), op'.idx, encode_utf8(op'.ch))]_vars

\* a 2-byte character was inserted after the first character of a 29-byte
\* text, moving 26 bytes over themselves
C10_Witness ==
    /\ op.name = "insert"
    /\ outcome = "ok"
    /\ op.idx = 3
    /\ op.ch = 233
    /\ length = 31

\* C11: InlineString::remove(idx) at the start of a character returns that
\* character, leaves old[0..idx) followed by old[idx+w..length) and shrinks
\* the length by the character's width w; with idx >= length or idx inside a
\* character it is fatal and changes neither the text nor the length.
C11_InlineRemoveContract ==
    [][op'.name = "remove" =>
        LET t == inline_text(Self)
            idx == op'.idx
        IN  IF idx < length /\ is_char_boundary(t, idx)
            THEN LET w == len_utf8(ret')
                 IN  /\ outcome' = "ok"
                     /\ SubSeq(t, idx + 1, idx + w) = encode_utf8(ret')
                     /\ length' = length - w
                     /\ inline_text(Self)' =
                            SubSeq(t, 1, idx) \o SubSeq(t, idx + w + 1, length)
            ELSE /\ outcome' = "panic"
                 /\ length' = length
                 /\ bytes' = bytes]_vars

\* the 3-byte character at the front of a 29-byte text was removed
C11_Witness ==
    /\ op.name = "remove"
    /\ op.idx = 0
    /\ outcome = "ok"
    /\ ret = 8364
    /\ length = 26

\* C12: pop on either variant returns None and changes nothing when the
\* length is 0; otherwise it returns the last character of the text, 1 to 4
\* bytes wide, shrinks the length by that width and leaves the prefix as it
\* was.
C12_PopContract ==
    [][op'.name = "pop" =>
        IF len = 0
        THEN outcome' = "ok" /\ ret' = None /\ Text' = Text /\ len' = 0
        ELSE LET w == len_utf8(ret')
             IN  /\ outcome' = "ok"
                 /\ ret' # None
                 /\ w \in 1..4
                 /\ Text = Text' \o encode_utf8(ret')
                 /\ len' = len - w]_vars

\* a 2-byte character was popped off a full inline buffer
C12_Witness ==
    /\ op.name = "pop"
    /\ ret = 233
    /\ variant = "Inline"
    /\ length = INLINE_STRING_CAPACITY - 2

\* C13: shrink_to_fit makes a Heap value Inline exactly when its length is
\* <= 32, keeping the text, with capacity() then 32; a longer Heap value stays
\* Heap with the same text; an Inline value is left as it is; the call never
\* panics; a second shrink_to_fit changes neither variant, text nor capacity.
C13_ShrinkToFitContract ==
    [][op'.name = "shrink_to_fit" =>
        /\ outcome' = "ok"
        /\ Text' = Text
        /\ variant = "Heap" =>
            (variant' = "Inline" <=> Len(heap) <= INLINE_STRING_CAPACITY)
        /\ variant = "Inline" =>
            (variant' = "Inline" /\ length' = length /\ bytes' = bytes)
        /\ variant' = "Inline" => capacity' = INLINE_STRING_CAPACITY
        /\ op.name = "shrink_to_fit" =>
            (variant' = variant /\ Text' = Text /\ capacity' = capacity)]_vars

\* a Heap value of exactly 32 bytes was demoted
C13_Witness ==
    /\ op.name = "shrink_to_fit"
    /\ op.was = "Heap"
    /\ variant = "Inline"
    /\ length = INLINE_STRING_CAPACITY

\* C14: reserve and reserve_exact never change the text; on an Inline value
\* of length L they change nothing when L + additional <= 32 and make it Heap
\* when L + additional > 32; and whenever they return, capacity() is at
\* least len() + additional.
C14_ReserveContract ==
    [][(op'.name \in {"reserve", "reserve_exact"} /\ outcome' = "ok") =>
        LET additional == op'.n
        IN  /\ Text' = Text
            /\ variant = "Inline" =>
                IF ~exceeds_isize_max(additional)
                   /\ length + additional <= INLINE_STRING_CAPACITY
                THEN /\ variant' = "Inline"
                     /\ length' = length
                     /\ bytes' = bytes
                     /\ capacity' = capacity
                ELSE variant' = "Heap"
            /\ ~exceeds_isize_max(additional)
            /\ capacity' >= len' + additional]_vars

----------------------------------------------------------------------------
(* Constructors of InlinableString, as values                              *)
(* [variant, length, bytes, heap, hcap], and the state they start.         *)

InlineValue(r) ==
    [variant |-> "Inline", length |-> r.length, bytes |-> r.bytes,
     heap |-> <<>>, hcap |-> 0]

HeapValue(h) ==
    [variant |-> "Heap", length |-> 0, bytes |-> Zeros,
     heap |-> h.text, hcap |-> h.cap]

\* the InlinableString of the state
Value ==
    [variant |-> variant, length |-> length, bytes |-> bytes,
     heap |-> heap, hcap |-> hcap]

\* a faulty with_capacity that goes to the heap for a capacity of exactly 32
inlinable_with_capacity_below(n) ==
    IF n < INLINE_STRING_CAPACITY
    THEN InlineValue(inline_new)
    ELSE HeapValue(string_with_capacity(n))

\* InlinableString::with_capacity, for capacity <= isize::MAX
inlinable_with_capacity(n) ==
    IF usize_le(n, INLINE_STRING_CAPACITY)
    THEN InlineValue(inline_new)
    ELSE HeapValue(string_with_capacity(n))

\* capacity arguments on both sides of the inline capacity
CapacityArgs == {0, 10, 32, 33, 100}

\* the state after InlinableString::with_capacity(n)
InitCtor ==
    /\ \E n \in CapacityArgs :
        /\ variant = inlinable_with_capacity(n).variant
        /\ length = inlinable_with_capacity(n).length
        /\ bytes = inlinable_with_capacity(n).bytes
        /\ heap = inlinable_with_capacity(n).heap
        /\ hcap = inlinable_with_capacity(n).hcap
        /\ op = [name |-> "with_capacity", idx |-> 0, ch |-> 0, str |-> <<>>,
                 n |-> n, was |-> "none"]
    /\ ref = <<>>
    /\ swapped = inline_new
    /\ outcome = "ok"
    /\ ret = None
    /\ refOutcome = "ok"
    /\ refRet = None
    /\ steps = 0

SpecCtor == InitCtor /\ [][Next]_vars

\* C15: with_capacity(n) returns an empty string, Inline when n <= 32 and
\* Heap when n > 32, whose capacity() is at least n.
C15_WithCapacityContract ==
    op.name = "with_capacity" =>
        /\ len = 0
        /\ Text = <<>>
        /\ variant = "Inline" <=> op.n <= INLINE_STRING_CAPACITY
        /\ variant = "Heap" <=> op.n > INLINE_STRING_CAPACITY
        /\ capacity >= op.n

\* with_capacity(33) gave an empty Heap string with room for 33 bytes
C15_Witness ==
    /\ op.name = "with_capacity"
    /\ op.n = INLINE_STRING_CAPACITY + 1
    /\ variant = "Heap"
    /\ hcap >= INLINE_STRING_CAPACITY + 1
    /\ heap = <<>>

\* C16: in every reachable state capacity() >= len(), and capacity() is
\* exactly 32 while the value is Inline; right after push_str, push, insert,
\* reserve or reserve_exact promoted the value, capacity() > 32.
C16_CapacityContract ==
    /\ [](/\ capacity >= len
          /\ variant = "Inline" => capacity = INLINE_STRING_CAPACITY)
    /\ [][(/\ variant = "Inline"
           /\ variant' = "Heap"
           /\ op'.name \in {"push_str", "push", "insert", "reserve",
                            "reserve_exact"})
          => capacity' > INLINE_STRING_CAPACITY]_vars

\* reserve promoted a text that still fits inline
C16_Witness ==
    /\ op.name = "reserve"
    /\ op.was = "Inline"
    /\ variant = "Heap"
    /\ Len(heap) > 0
    /\ Len(heap) <= INLINE_STRING_CAPACITY
    /\ hcap > INLINE_STRING_CAPACITY

\* C17: in either variant push(c) appends the encoding of c to the text, and
\* a pop() right after push(c) returns c and takes exactly that encoding off
\* again, so that text and length are those before the push, also when the
\* push promoted the value (the variant is then Heap).
C17_PushPopRoundTrip ==
    [][/\ op'.name = "push" =>
            /\ outcome' = "ok"
            /\ Text' = Text \o encode_utf8(op'.ch)
            /\ len' = len + len_utf8(op'.ch)
       /\ (op.name = "push" /\ op'.name = "pop") =>
            /\ outcome' = "ok"
            /\ ret' = op.ch
            /\ Text' \o encode_utf8(op.ch) = Text
            /\ len' = len - len_utf8(op.ch)
            /\ op.was = "Heap" => variant' = "Heap"
            /\ variant = "Heap" => variant' = "Heap"]_vars

\* a 4-byte character pushed onto a full inline buffer, which promoted it,
\* was popped again, leaving the 32 bytes on the heap
C17_Witness ==
    /\ op.name = "pop"
    /\ op.was = "Heap"
    /\ ret = 119070
    /\ variant = "Heap"
    /\ Len(heap) = INLINE_STRING_CAPACITY
    /\ hcap = 2 * (INLINE_STRING_CAPACITY + 1)

----------------------------------------------------------------------------
(* Conversions and comparisons of InlinableString values *)

\* a faulty from that sends a text of exactly 32 bytes to the heap
inlinable_from_below(string) ==
    IF Len(string) < INLINE_STRING_CAPACITY
    THEN InlineValue(inline_from(string))
    ELSE HeapValue(string_from(string))

\* impl From<&str> for InlinableString
inlinable_from(string) ==
    LET string_len == Len(string)
    IN  IF string_len <= INLINE_STRING_CAPACITY
        THEN InlineValue(inline_from(string))
        ELSE HeapValue(string_from(string))

\* InlinableString::from_utf8 of valid bytes: always Heap
inlinable_from_utf8(vec) == HeapValue(string_from(vec))

\* impl Index<RangeFull> for InlinableString: &self[..]
index_full(v) ==
    IF v.variant = "Heap" THEN v.heap ELSE SubSeq(v.bytes, 1, v.length)

\* impl Deref for InlinableString, on a value
deref(v) ==
    IF v.variant = "Heap" THEN v.heap ELSE inline_text(v)

\* a faulty eq: the comparison #[derive(PartialEq)] would give, over the
\* variant and every field
eq_derived(a, b) == a = b

\* impl PartialEq for InlinableString: eq
eq(a, b) == index_full(a) = index_full(b)

\* impl PartialEq for InlinableString: ne
ne(a, b) == index_full(a) # index_full(b)

\* impl Hash for InlinableString: the bytes str::hash feeds to the hasher,
\* the text and then 0xff
hash(v) == deref(v) \o <<255>>

\* the texts a value is compared with
OtherTexts == SeedTexts \cup {ref, Text}

\* C18: an InlinableString is equal to another one, and feeds the same bytes
\* to a hasher, iff the two texts are equal, whichever variant either is in
\* (the other value built by From<&str> or by from_utf8); eq is symmetric
\* and ne is its negation.
C18_EqualityByText ==
    \A t \in OtherTexts :
        \A o \in {inlinable_from(t), inlinable_from_utf8(t)} :
            /\ eq(Value, o) <=> Text = t
            /\ eq(o, Value) <=> eq(Value, o)
            /\ ne(Value, o) <=> ~eq(Value, o)
            /\ hash(Value) = hash(o) <=> Text = t

\* a Heap value popped back to a text that fits inline is equal to the
\* Inline value From<&str> builds of the same text
C18_Witness ==
    /\ op.name = "pop"
    /\ variant = "Heap"
    /\ Len(heap) > 0
    /\ Len(heap) <= INLINE_STRING_CAPACITY
    /\ inlinable_from(heap).variant = "Inline"
    /\ eq(Value, inlinable_from(heap))

\* impl Serialize for InlinableString: serializer.serialize_str(self), the
\* tokens the serializer receives
serialize(v) == <<[kind |-> "Str", val |-> deref(v)]>>

\* impl Deserialize for InlinableString: the visitor accepts a string token
\* (visit_str: v.into()) and nothing else
deserialize(tokens) ==
    IF Len(tokens) = 1 /\ tokens[1].kind = "Str"
    THEN [res |-> "ok", value |-> inlinable_from(tokens[1].val)]
    ELSE [res |-> "err", value |-> InlineValue(inline_new)]

\* C19: InlinableString::from(s) is Inline iff len(s) <= 32 and Heap
\* otherwise, with text exactly s; an InlinableString serializes to one
\* string token holding its text, and deserializing that token gives a
\* value equal to the original, whatever the original's variant.
C19_FromAndSerdeRoundTrip ==
    Sane =>
        /\ \A t \in OtherTexts :
            LET v == inlinable_from(t)
            IN  /\ v.variant = "Inline" <=> Len(t) <= INLINE_STRING_CAPACITY
                /\ v.variant = "Heap" <=> Len(t) > INLINE_STRING_CAPACITY
                /\ deref(v) = t
        /\ serialize(Value) = <<[kind |-> "Str", val |-> Text]>>
        /\ LET d == deserialize(serialize(Value))
           IN  /\ d.res = "ok"
               /\ eq(d.value, Value)
               /\ eq(Value, d.value)
               /\ deref(d.value) = Text

\* a Heap value truncated to a text that fits inline comes back from its
\* serialized form as an Inline value
C19_Witness ==
    /\ op.name = "truncate"
    /\ outcome = "ok"
    /\ variant = "Heap"
    /\ Len(heap) > 0
    /\ Len(heap) <= INLINE_STRING_CAPACITY
    /\ deserialize(serialize(Value)).value.variant = "Inline"

----------------------------------------------------------------------------
(* An InlinableString whose holder also reaches into the public Inline     *)
(* variant and calls the InlineString's own methods on it, starting from a *)
(* text of 31 or 32 bytes.                                                 *)

InitNearFull == Init /\ Len(ref) \in {INLINE_STRING_CAPACITY - 1, INLINE_STRING_CAPACITY}

NextEmbedded ==
    \/ Next
    \/ variant = "Inline" /\ NextInline

SpecEmbedded == InitNearFull /\ [][NextEmbedded]_vars

\* C20: the length of an InlineString, bare or as the Inline variant of an
\* InlinableString, is at most 32 in every reachable state, also after calls
\* that returned NotEnoughSpaceError or panicked.
C20_LengthWithinCapacity ==
    variant = "Inline" => length <= INLINE_STRING_CAPACITY

\* an insert into a full inline buffer was refused and the buffer is still full
C20_Witness ==
    /\ op.name = "insert"
    /\ outcome = "err"
    /\ variant = "Inline"
    /\ length = INLINE_STRING_CAPACITY

----------------------------------------------------------------------------
(* InlineString::from(&str) as a call that can fail, and the bare          *)
(* InlineString it starts.                                                 *)

\* a faulty from whose assertion rejects a text of exactly 32 bytes
inline_from_below(string) ==
    IF Len(string) < INLINE_STRING_CAPACITY
    THEN [res |-> "ok", length |-> Len(string),
          bytes |-> write_at(inline_new.bytes, 0, string), ret |-> None]
    ELSE [res |-> "panic", length |-> 0, bytes |-> Zeros, ret |-> None]

\* impl From<&str> for InlineString: the assert! on string_len, then
\* InlineString::new, ptr::copy of string_len bytes and the length
inline_from_str(string) ==
    IF Len(string) <= INLINE_STRING_CAPACITY
    THEN [res |-> "ok", length |-> Len(string),
          bytes |-> write_at(inline_new.bytes, 0, string), ret |-> None]
    ELSE [res |-> "panic", length |-> 0, bytes |-> Zeros, ret |-> None]

\* InlineString::into_bytes without the loop that zeroes the tail
inline_into_bytes_unzeroed(s) == s.bytes

\* InlineString::into_bytes
inline_into_bytes(s) ==
    [i \in 1..INLINE_STRING_CAPACITY |-> IF i - 1 >= s.length THEN 0 ELSE s.bytes[i]]

\* &str arguments of from: the initial texts and one of 33 bytes
FromTexts == SeedTexts \cup {Seed(28)}

\* the state after InlineString::from(t); a call that panicked built nothing
InitFrom ==
    /\ \E t \in FromTexts :
        /\ ref = t
        /\ op = [name |-> "from", idx |-> 0, ch |-> 0, str |-> t, n |-> 0,
                 was |-> "none"]
        /\ outcome = inline_from_str(t).res
        /\ length = inline_from_str(t).length
        /\ bytes = inline_from_str(t).bytes
        /\ variant = IF inline_from_str(t).res = "ok" THEN "Inline" ELSE "None"
    /\ heap = <<>>
    /\ hcap = 0
    /\ swapped = inline_new
    /\ ret = None
    /\ refOutcome = "ok"
    /\ refRet = None
    /\ steps = 0

\* the methods of the InlineString that was built
NextFrom == variant = "Inline" /\ NextInline

SpecFrom == InitFrom /\ [][NextFrom]_vars

\* C21: InlineString::from(s) of a text of at most 32 bytes has length
\* len(s) and reads back exactly s, as text and as the leading bytes of
\* into_bytes; from a longer text it panics and builds no InlineString.
C21_InlineFromContract ==
    op.name = "from" =>
        IF Len(op.str) <= INLINE_STRING_CAPACITY
        THEN /\ outcome = "ok"
             /\ variant = "Inline"
             /\ length = Len(op.str)
             /\ inline_text(Self) = op.str
             /\ SubSeq(inline_into_bytes(Self), 1, Len(op.str)) = op.str
        ELSE /\ outcome = "panic"
             /\ variant = "None"

\* from of a text of exactly 32 bytes with multi-byte characters at both ends
C21_Witness ==
    /\ op.name = "from"
    /\ Len(op.str) = INLINE_STRING_CAPACITY
    /\ outcome = "ok"
    /\ length = INLINE_STRING_CAPACITY
    /\ bytes[1] = 226

----------------------------------------------------------------------------
(* into_bytes *)

\* InlinableString::into_bytes: String::into_bytes or Vec::from(&s[..])
inlinable_into_bytes(v) ==
    IF v.variant = "Heap" THEN v.heap ELSE inline_text(v)

\* the bytes at positions [length, 32) that an earlier call left behind
StaleBytes == {i \in length + 1..INLINE_STRING_CAPACITY : bytes[i] # 0}

\* C22: whatever calls were made before, InlineString::into_bytes returns
\* 32 bytes of which the first length are the current text and the others
\* are zero, and InlinableString::into_bytes returns exactly the len() bytes
\* of the text in either variant.
C22_IntoBytesContract ==
    Sane =>
        /\ variant = "Inline" =>
            /\ Len(inline_into_bytes(Self)) = INLINE_STRING_CAPACITY
            /\ SubSeq(inline_into_bytes(Self), 1, length) = inline_text(Self)
            /\ \A i \in length + 1..INLINE_STRING_CAPACITY :
                   inline_into_bytes(Self)[i] = 0
        /\ Len(inlinable_into_bytes(Value)) = len
        /\ inlinable_into_bytes(Value) = Text

\* a shortened text of several characters with non-zero bytes left behind it
C22_Witness ==
    /\ variant = "Inline"
    /\ op.name \in {"remove", "pop", "truncate", "clear"}
    /\ outcome = "ok"
    /\ length > 3
    /\ StaleBytes # {}

----------------------------------------------------------------------------
(* impl Extend and impl FromIterator for InlinableString (lib.rs), built   *)
(* on reserve, push and push_str as functions of the value.                *)

\* the String of a Heap value
heap_of(v) == [text |-> v.heap, cap |-> v.hcap]

\* InlinableString::new
inlinable_new == InlineValue(inline_new)

\* InlinableString::push, as a function of the value
inlinable_push(v, ch) ==
    IF v.variant = "Heap"
    THEN HeapValue(string_push(heap_of(v), ch))
    ELSE LET r == inline_push(v, ch)
         IN  IF r.res = "ok"
             THEN InlineValue(r)
             ELSE HeapValue(promoted_push(r, ch))

\* InlinableString::push_str, as a function of the value
inlinable_push_str(v, string) ==
    IF v.variant = "Heap"
    THEN HeapValue(string_push_str(heap_of(v), string))
    ELSE LET r == inline_push_str(v, string)
         IN  IF r.res = "ok"
             THEN InlineValue(r)
             ELSE HeapValue(promoted_push_str(r, string))

\* InlinableString::reserve, as a function of the value: [res, value]
inlinable_reserve(v, additional, dbg) ==
    IF v.variant = "Heap"
    THEN LET h == string_reserve(heap_of(v), additional)
         IN  [res |-> h.res, value |-> HeapValue(h)]
    ELSE IF dbg /\ usize_add_overflows(v.length, additional)
    THEN [res |-> "panic", value |-> v]
    ELSE LET new_capacity == usize_wrapping_add(v.length, additional)
         IN  IF usize_le(new_capacity, INLINE_STRING_CAPACITY)
             THEN [res |-> "ok", value |-> v]
             ELSE IF exceeds_isize_max(new_capacity)
             THEN [res |-> "panic", value |-> v]
             ELSE [res |-> "ok",
                   value |-> HeapValue(string_push_str(
                                 string_with_capacity(new_capacity),
                                 inline_text(v)))]

\* for ch in iterator { self.push(ch) }
RECURSIVE push_each(_, _)
push_each(v, items) ==
    IF items = <<>> THEN v
    ELSE push_each(inlinable_push(v, Head(items)), Tail(items))

\* a faulty loop that appends the fragments from the last to the first
RECURSIVE push_str_each_reversed(_, _)
push_str_each_reversed(v, items) ==
    IF items = <<>> THEN v
    ELSE inlinable_push_str(push_str_each_reversed(v, Tail(items)), Head(items))

\* for s in iterator { self.push_str(s) }
RECURSIVE push_str_each(_, _)
push_str_each(v, items) ==
    IF items = <<>> THEN v
    ELSE push_str_each(inlinable_push_str(v, Head(items)), Tail(items))

\* impl Extend<char>: reserve(lower_bound), then push every character
extend_chars(v, items, lower_bound, dbg) ==
    LET r == inlinable_reserve(v, lower_bound, dbg)
    IN  IF r.res = "panic"
        THEN r
        ELSE [res |-> "ok", value |-> push_each(r.value, items)]

\* impl Extend<&str>: reserve(lower_bound), then push_str every fragment
extend_strs(v, items, lower_bound, dbg) ==
    LET r == inlinable_reserve(v, lower_bound, dbg)
    IN  IF r.res = "panic"
        THEN r
        ELSE [res |-> "ok", value |-> push_str_each(r.value, items)]

\* impl FromIterator<char>
from_iter_chars(items, lower_bound, dbg) ==
    extend_chars(inlinable_new, items, lower_bound, dbg)

\* impl FromIterator<&str>
from_iter_strs(items, lower_bound, dbg) ==
    extend_strs(inlinable_new, items, lower_bound, dbg)

\* the fragments of an iterator, joined
RECURSIVE Concat(_)
Concat(items) ==
    IF items = <<>> THEN <<>> ELSE Head(items) \o Concat(Tail(items))

\* iterators of characters: empty, one character, characters of every width
CharItems == {<<>>, <<97>>, <<233, 8364>>, <<97, 119070, 97>>}

\* iterators of fragments: empty, empty fragments only, mixed, and one
\* fragment longer than the inline capacity
StrItems ==
    {<<>>,
     << <<>> >>,
     << <<>>, <<>>, <<>>, <<>> >>,
     << Str(<<104, 105>>), <<>> >>,
     << Str(<<119070, 233>>), Str(<<104, 105>>) >>,
     << Seed(30) >>}

\* Iterator::size_hint().0: the number of items (a Vec or a slice) or 0 (an
\* iterator that cannot tell, such as a filter)
LowerBounds(items) == {0, Len(items)}

\* *self = v
SetValue(v) ==
    /\ variant' = v.variant
    /\ length' = v.length
    /\ bytes' = v.bytes
    /\ heap' = v.heap
    /\ hcap' = v.hcap

\* the call leaves the value r.value and reports r.res; the reference String
\* is the previous text followed by the items
IterStep(name, r, before, joined, count, lower_bound) ==
    /\ op' = [name |-> name, idx |-> count, ch |-> 0, str |-> joined,
              n |-> lower_bound, was |-> variant]
    /\ SetValue(r.value)
    /\ Result(r.res, None)
    /\ ref' = before \o joined
    /\ refOutcome' = "ok"
    /\ refRet' = None
    /\ swapped' = inline_new
    /\ steps' = steps + 1

\* self.extend(iterator of char)
ExtendChars ==
    /\ CanStep
    /\ \E items \in CharItems, dbg \in BOOLEAN :
        \E lower_bound \in LowerBounds(items) :
            IterStep("extend_chars", extend_chars(Value, items, lower_bound, dbg),
                     ref, Str(items), Len(items), lower_bound)

\* self.extend(iterator of &str)
ExtendStrs ==
    /\ CanStep
    /\ \E items \in StrItems, dbg \in BOOLEAN :
        \E lower_bound \in LowerBounds(items) :
            IterStep("extend_strs", extend_strs(Value, items, lower_bound, dbg),
                     ref, Concat(items), Len(items), lower_bound)

\* *self = iterator.collect(), characters
FromIterChars ==
    /\ CanStep
    /\ \E items \in CharItems, dbg \in BOOLEAN :
        \E lower_bound \in LowerBounds(items) :
            IterStep("from_iter_chars", from_iter_chars(items, lower_bound, dbg),
                     <<>>, Str(items), Len(items), lower_bound)

\* *self = iterator.collect(), fragments
FromIterStrs ==
    /\ CanStep
    /\ \E items \in StrItems, dbg \in BOOLEAN :
        \E lower_bound \in LowerBounds(items) :
            IterStep("from_iter_strs", from_iter_strs(items, lower_bound, dbg),
                     <<>>, Concat(items), Len(items), lower_bound)

NextIter ==
    \/ ExtendChars
    \/ ExtendStrs
    \/ FromIterChars
    \/ FromIterStrs

SpecIter == Init /\ [][NextIter]_vars

\* C23: extend leaves the previous text followed by all the items in
\* iteration order, from_iter leaves the items alone, and both leave the
\* text that pushing the items one by one without the reserve leaves.
C23_ExtendContract ==
    [][/\ op'.name \in {"extend_chars", "extend_strs"} =>
            /\ outcome' = "ok"
            /\ Text' = Text \o op'.str
       /\ op'.name \in {"from_iter_chars", "from_iter_strs"} =>
            /\ outcome' = "ok"
            /\ Text' = op'.str
       /\ \A items \in CharItems :
            Str(items) = op'.str =>
                /\ op'.name = "extend_chars" =>
                       Text' = deref(push_each(Value, items))
                /\ op'.name = "from_iter_chars" =>
                       Text' = deref(push_each(inlinable_new, items))
       /\ \A items \in StrItems :
            (Concat(items) = op'.str /\ Len(items) = op'.idx) =>
                /\ op'.name = "extend_strs" =>
                       Text' = deref(push_str_each(Value, items))
                /\ op'.name = "from_iter_strs" =>
                       Text' = deref(push_str_each(inlinable_new, items))]_vars

\* an extend with two different fragments that promotes an Inline value
C23_Witness ==
    /\ op.name = "extend_strs"
    /\ op.idx = 2
    /\ op.str = Str(<<119070, 233, 104, 105>>)
    /\ op.was = "Inline"
    /\ variant = "Heap"
    /\ outcome = "ok"

\* C24: an extend or from_iter on an Inline value whose final text is at
\* most 32 bytes leaves the value Inline, however many fragments, empty ones
\* included, the iterator yields.
C24_ExtendPromotesOnlyOnOverflow ==
    [][(/\ op'.name \in {"extend_chars", "extend_strs",
                         "from_iter_chars", "from_iter_strs"}
        /\ op'.name \in {"extend_chars", "extend_strs"} => variant = "Inline"
        /\ outcome' = "ok"
        /\ Len(Text') <= INLINE_STRING_CAPACITY)
       => variant' = "Inline"]_vars

----------------------------------------------------------------------------
\* C25: reserve(additional) and reserve_exact(additional) on an Inline value
\* of length L never return normally with capacity() below L + additional,
\* for every usize value of additional, those whose sum with L is beyond
\* usize::MAX included.
C25_ReserveNeverSilentlyWraps ==
    [][(/\ op'.name \in {"reserve", "reserve_exact"}
        /\ op'.was = "Inline"
        /\ outcome' = "ok")
       => /\ ~exceeds_isize_max(op'.n)
          /\ capacity' >= length + op'.n]_vars

----------------------------------------------------------------------------
(* Equality and hashing of InlineString (inline_string.rs) *)

\* a faulty equality that compares the two structs field by field, as a
\* derived PartialEq would
inline_eq_derived(a, b) == a = b

\* PartialEq<InlineString> for InlineString: eq compares &self[..] with
\* &rhs[..]
inline_eq(a, b) == inline_text(a) = inline_text(b)

\* PartialEq<InlineString> for InlineString: ne
inline_ne(a, b) == inline_text(a) # inline_text(b)

\* impl Hash for InlineString: the bytes (**self).hash() feeds the hasher,
\* which for str are the text followed by 0xff
inline_hash(s) == inline_text(s) \o <<255>>

\* InlineStrings to compare with: freshly built from the text of the buffer,
\* from the reference text and from the initial texts
FreshInlineStrings ==
    {inline_from(t) : t \in {s \in SeedTexts \cup {ref, inline_text(Self)} :
                                 Len(s) <= INLINE_STRING_CAPACITY}}

\* C26: whatever bytes earlier calls left at positions [length, 32), an
\* InlineString equals, and hashes the same as, every InlineString with the
\* same text, and differs from every InlineString with another text.
C26_InlineEqualityByText ==
    (variant = "Inline" /\ Sane) =>
        \A other \in FreshInlineStrings :
            /\ inline_eq(Self, other) <=> inline_text(Self) = inline_text(other)
            /\ inline_eq(other, Self) <=> inline_eq(Self, other)
            /\ inline_ne(Self, other) <=> ~inline_eq(Self, other)
            /\ inline_eq(Self, other) => inline_hash(Self) = inline_hash(other)

\* after a pop or a truncate the buffer differs, past its length, from a
\* freshly built InlineString with the same text
C26_Witness ==
    /\ variant = "Inline"
    /\ op.name \in {"pop", "truncate"}
    /\ outcome = "ok"
    /\ length > 0
    /\ StaleBytes # {}
    /\ Self # inline_from(inline_text(Self))

====
